---- MODULE Spec2Model ----
(***************************************************************************)
(* Model of the fetch-orchestration layer of async_scraper.py: the         *)
(* RateLimiter, the semaphore gate, the RobotsCache, fetch with retry and  *)
(* backoff, _scrape_one and the gather of scrape_many; and of the same     *)
(* RateLimiter as async_imdb.py's scrape_imdb drives it.                   *)
(*                                                                         *)
(* Tasks are asyncio coroutines: the code between two suspension points    *)
(* (await of a lock, a semaphore, a sleep or a network response) runs      *)
(* atomically, so every action below is one such stretch of code.          *)
(* Time is a discrete clock read by loop.time(); it advances by Tick.      *)
(***************************************************************************)
EXTENDS Integers, Sequences, FiniteSets, TLC

\* ---------------------------------------------------------------- bounds
NumUrls == 2
MaxConcurrency == 2
MaxRetries == 3
MaxTime == 4

\* ------------------------------------------------------- input universes
Hosts == {"h1", "h2"}
Paths == {"/a", "/b"}
\* an absolute URL, reduced to what urlparse reads from it: <<netloc, path>>
URLS == {<<"h1", "/a">>, <<"h1", "/b">>, <<"h2", "/a">>}
Delays == {0, 2}
\* what one page request can end in: a 2xx response, or an exception (a
\* non-2xx status in raise_for_status, a transport error, the timeout)
AttemptOutcomes == {"ok", "http_error"}
\* what the external extraction step can end in
ExtractOutcomes == {"ok", "extract_error"}
\* what the robots.txt request can end in.  body is the set of paths the
\* text disallows for the configured user agent ({} is the empty text).
RobotsResponses ==
    { [kind |-> "error", status |-> 0, body |-> {}],
      [kind |-> "response", status |-> 404, body |-> {"/a"}],
      [kind |-> "response", status |-> 200, body |-> {}],
      [kind |-> "response", status |-> 200, body |-> {"/a"}] }

GLOBAL == "__global__"
NoTask == 0

VARIABLES
    \* arguments of scrape_many / fetch
    urls, concurrency, delay, per_host, respect_robots, retries,
    \* the rate_limiter argument of fetch: "None" or "RateLimiter"
    rate_limiter,
    \* loop.time()
    now,
    \* asyncio.Semaphore._value
    sem_value,
    \* RateLimiter: _lock holder, _next_ready_global, _per_host_next
    rl_lock, next_ready_global, per_host_next,
    \* RobotsCache: _lock holder, _cache
    rb_lock, cache,
    \* per task: position, loop variable attempt, local backoff, deadline of
    \* the sleep in progress, duration of the backoff sleep in progress
    pc, attempt, backoff, wakeAt, sleepDur,
    \* per task: what _scrape_one ended in
    outcome,
    \* gather: completion order of the tasks, and what scrape_many returned
    completed, batch,
    \* history: last request time and last gap per rate-limit scope
    lastWire, gap,
    \* history: time of the last robots.txt request per rate-limit scope,
    \* kept for as long as it is less than delay old
    lastRobots,
    \* history: number of acquisitions of the limiter's lock, the number each
    \* task holds the lock under, and the number of the last wait that returned
    lockSeq, ticket, lastOut,
    \* history: robots.txt requests per host, hosts whose robots request failed
    robotsFetches, robotsFailed,
    \* history per task: semaphore acquisitions, RateLimiter.wait calls,
    \* page requests issued, and the events of the task
    gateAcquires, waitCalls, netAttempts, ev

config == <<urls, concurrency, delay, per_host, respect_robots, retries,
            rate_limiter>>
limiter == <<rl_lock, next_ready_global, per_host_next, lockSeq, ticket,
             lastOut>>
robots == <<rb_lock, cache, robotsFetches, robotsFailed, lastRobots>>
wire == <<lastWire, gap>>
vars == <<urls, concurrency, delay, per_host, respect_robots, retries,
          rate_limiter, now,
          sem_value, rl_lock, next_ready_global, per_host_next, rb_lock,
          cache, pc, attempt, backoff, wakeAt, sleepDur, outcome, completed,
          batch, lastWire, gap, lastRobots, lockSeq, ticket, lastOut,
          robotsFetches, robotsFailed, gateAcquires, waitCalls, netAttempts,
          ev>>

\* one task per element of the URL list
Tasks == DOMAIN urls

\* ----------------------------------------------------------- dictionaries
EmptyDict == [k \in {} |-> 0]
Get(d, k, default) == IF k \in DOMAIN d THEN d[k] ELSE default
Put(d, k, v) == [x \in (DOMAIN d) \cup {k} |-> IF x = k THEN v ELSE d[x]]

\* urlparse(url).netloc
Host(url) == url[1]
PathOf(url) == url[2]

\* ------------------------------------------------------------ RateLimiter
\* scrape_many builds a RateLimiter only when delay > 0
HasLimiter(d) == d > 0
\* RateLimiter.__init__: self.delay = max(0.0, delay)
LimiterDelay(d) == IF d > 0 THEN d ELSE 0
\* RateLimiter.wait: the scope a URL is throttled under
ScopeKey(url) == IF per_host THEN Host(url) ELSE GLOBAL
\* (variant: the early return is taken for a negative delay only)
WaitIsNoOpNegativeOnly(d) == d < 0
\* RateLimiter.wait: "if self.delay <= 0: return"
WaitIsNoOp(d) == d <= 0
\* (variant: wait runs without mutual exclusion)
LimiterNoLock(holder) == TRUE
\* asyncio.Lock: acquire() goes through without suspending iff unlocked
LockFree(holder) == holder = NoTask
\* (variant: the lock is given up for the time of the sleep)
SleepHolderReleased(i) == NoTask
\* RateLimiter.wait: the sleep is inside "async with self._lock", so the
\* lock's holder during the sleep is the sleeping task
SleepHolder(i) == i
\* RateLimiter.wait: the next-allowed time of the URL's scope
NextReady(url) ==
    IF per_host THEN Get(per_host_next, Host(url), 0) ELSE next_ready_global
\* (variant: the reservation forgets the delay)
ReserveUntilNoDelay(t, d) == t
\* RateLimiter.wait: the slot reserved by a caller that proceeds at time t
ReserveUntil(t, d) == t + d

\* ------------------------------------------------------------------ gate
\* (variant: the gate admits every caller)
SemAlwaysAcquire(v) == TRUE
\* asyncio.Semaphore.acquire: goes through iff the counter is positive
SemCanAcquire(v) == v > 0
\* (variant: the slot is not given back when the block is left)
SemNoRelease(v) == v
\* asyncio.Semaphore.release, at the exit of "async with semaphore"
SemRelease(v) == v + 1
\* (variant: "async with semaphore" is inside the loop, around one attempt)
SlotGivenBackAfterAttempt(v) == v + 1
\* fetch: the loop is inside "async with semaphore", so a failed attempt
\* that is to be retried leaves the semaphore's counter as it is
SlotAfterFailedAttempt(v) == v

\* ----------------------------------------------------------------- fetch
\* (variant: the last attempt is taken to be the one before)
IsLastAttemptEarly(a, n) == a = n - 1
\* (variant: a 2xx response is accepted only if its text can be extracted)
AttemptSucceededIfExtractable(res, ext) == res = "ok" /\ ext = "ok"
\* fetch: raise_for_status passed and the text is returned, whatever it is
AttemptSucceeded(res, ext) == res = "ok"
\* fetch: "if attempt == retries: raise"
IsLastAttempt(a, n) == a = n
\* fetch: "for attempt in range(1, retries + 1)" has a next value after a
LoopContinues(a, n) == a + 1 <= n
\* (variant: the backoff is never doubled)
NextBackoffFlat(b) == b
\* fetch: "backoff *= 2"
NextBackoff(b) == b * 2
\* the text of the response of attempt a for url
Body(url, a) == [url |-> url, attempt |-> a]

\* ----------------------------------------------------------- RobotsCache
\* (variant: can_fetch runs without its lock)
RobotsNoLock(holder) == TRUE
\* RobotsCache._lock: acquire() goes through without suspending iff unlocked
RobotsLockFree(holder) == holder = NoTask
\* (variant: the body of any response is parsed, whatever its status)
RobotsTextAnyStatus(resp) ==
    IF resp.kind = "response" THEN resp.body ELSE {}
\* can_fetch: text stays "" unless the request succeeded with status 200
RobotsText(resp) ==
    IF resp.kind = "response" /\ resp.status = 200 THEN resp.body ELSE {}
\* (variant: one lock per host)
RobotsMayEnterPerHost(i) ==
    IF rb_lock = NoTask THEN TRUE ELSE Host(urls[rb_lock]) # Host(urls[i])
\* RobotsCache.can_fetch: "async with self._lock", one lock for the cache
RobotsMayEnter(i) == RobotsLockFree(rb_lock)
\* RobotFileParser.parse followed by can_fetch(user_agent, url): the rule
\* set is the set of disallowed paths, the empty text allows everything
CanFetch(rules, url) == PathOf(url) \notin rules

\* ----------------------------------------------------------- _scrape_one
Pending == [kind |-> "pending"]
Return(v) == [kind |-> "return", value |-> v]
Raise(e) == [kind |-> "raise", exc |-> e]
DisallowResult(url) ==
    [url |-> url, ok |-> FALSE, error |-> "Disallowed by robots.txt"]
OkResult(url, data) == [url |-> url, ok |-> TRUE, data |-> data]
ErrResult(url, e) == [url |-> url, ok |-> FALSE, error |-> e]
\* parse_html on the fetched text (external collaborator): data or an error
Extract(html, ext) ==
    IF ext = "ok" THEN Return([source |-> html]) ELSE Raise(ext)
\* (variant: an extraction error is swallowed into empty data)
AfterFetchSwallow(url, html, ext) == Return(OkResult(url, [source |-> html]))
\* _scrape_one after fetch returned html: parse_html, then the ok dict
AfterFetch(url, html, ext) ==
    LET data == Extract(html, ext)
    IN  IF data.kind = "return" THEN Return(OkResult(url, data.value)) ELSE data
\* (variant: the try block ends before parse_html)
CatchFetchOnly(url, out) ==
    IF out.kind = "raise" /\ out.exc # "extract_error"
    THEN Return(ErrResult(url, out.exc)) ELSE out
\* _scrape_one: "except Exception as e" around the whole body
Catch(url, out) ==
    IF out.kind = "raise" THEN Return(ErrResult(url, out.exc)) ELSE out
\* (variant: the disallow branch logs and forgets to return)
AfterRobotsNoReturn(allowed) == "gate"
\* _scrape_one: where the task goes once can_fetch has answered
AfterRobots(allowed) == IF allowed THEN "gate" ELSE "done"

\* ----------------------------------------------------------- scrape_many
\* (variant: the results in the order the tasks completed)
GatherAsCompleted(outs, order) == [i \in 1..Len(order) |-> outs[order[i]].value]
\* asyncio.gather(*tasks): the results in the order of the awaitables
GatherResults(outs, order) == [i \in 1..Len(order) |-> outs[i].value]

\* ------------------------------------------------------------------ Init
InitEv == [robots |-> "none", fetch |-> "none", extract |-> "none"]

\* the semaphore, the limiter, the robots cache and the tasks as they are
\* built, before any task has run
Start ==
    /\ now = 0
    /\ sem_value = concurrency
    /\ rl_lock = NoTask
    /\ next_ready_global = 0
    /\ per_host_next = EmptyDict
    /\ rb_lock = NoTask
    /\ cache = EmptyDict
    /\ pc = [i \in Tasks |-> IF respect_robots THEN "robots" ELSE "gate"]
    /\ attempt = [i \in Tasks |-> 0]
    /\ backoff = [i \in Tasks |-> 0]
    /\ wakeAt = [i \in Tasks |-> 0]
    /\ sleepDur = [i \in Tasks |-> 0]
    /\ outcome = [i \in Tasks |-> Pending]
    /\ completed = <<>>
    /\ batch = [kind |-> "running"]
    /\ lastWire = EmptyDict
    /\ gap = EmptyDict
    /\ lastRobots = EmptyDict
    /\ lockSeq = 0
    /\ ticket = [i \in Tasks |-> 0]
    /\ lastOut = 0
    /\ robotsFetches = [h \in Hosts |-> 0]
    /\ robotsFailed = {}
    /\ gateAcquires = [i \in Tasks |-> 0]
    /\ waitCalls = [i \in Tasks |-> 0]
    /\ netAttempts = [i \in Tasks |-> 0]
    /\ ev = [i \in Tasks |-> InitEv]

Init ==
    /\ urls \in [1..NumUrls -> URLS]
    /\ concurrency \in 1..MaxConcurrency
    /\ delay \in Delays
    \* per_host is read by the RateLimiter alone, built only when delay > 0
    /\ per_host \in (IF delay > 0 THEN BOOLEAN ELSE {FALSE})
    /\ respect_robots \in BOOLEAN
    /\ retries \in 1..MaxRetries
    /\ rate_limiter = IF HasLimiter(delay) THEN "RateLimiter" ELSE "None"
    /\ Start

\* --------------------------------------------------------------- helpers
\* the task's coroutine ends with out
Finish(i, out) ==
    /\ outcome' = [outcome EXCEPT ![i] = out]
    /\ completed' = Append(completed, i)

\* session.get(url) is issued at the current time.  The request times are
\* kept per rate-limit scope, in the runs that configure a delay.
IssueRequest(i) ==
    LET scope == ScopeKey(urls[i])
    IN  /\ pc' = [pc EXCEPT ![i] = "request"]
        /\ netAttempts' = [netAttempts EXCEPT ![i] = @ + 1]
        /\ IF delay > 0
           THEN /\ lastWire' = Put(lastWire, scope, now)
                /\ gap' = IF scope \in DOMAIN lastWire
                          THEN Put(gap, scope, now - lastWire[scope])
                          ELSE gap
           ELSE UNCHANGED wire

\* (variant: the reservation is written to both stores)
ReserveBoth(i) ==
    /\ per_host_next' = Put(per_host_next, Host(urls[i]),
                            ReserveUntil(now, LimiterDelay(delay)))
    /\ next_ready_global' = ReserveUntil(now, LimiterDelay(delay))
\* RateLimiter.wait: write next[scope] = now + delay
Reserve(i) ==
    IF per_host
    THEN /\ per_host_next' = Put(per_host_next, Host(urls[i]),
                                 ReserveUntil(now, LimiterDelay(delay)))
         /\ UNCHANGED next_ready_global
    ELSE /\ next_ready_global' = ReserveUntil(now, LimiterDelay(delay))
         /\ UNCHANGED per_host_next

\* RateLimiter.wait with the lock just acquired by task i: either sleep
\* with the lock held, or reserve the slot, release and let fetch go on
LimiterCritical(i) ==
    LET next_ready == NextReady(urls[i])
    IN  IF now < next_ready
        THEN /\ rl_lock' = SleepHolder(i)
             /\ pc' = [pc EXCEPT ![i] = "limiter_sleep"]
             /\ wakeAt' = [wakeAt EXCEPT ![i] = now + (next_ready - now)]
             /\ lockSeq' = lockSeq + 1
             /\ ticket' = [ticket EXCEPT ![i] = lockSeq + 1]
             /\ UNCHANGED <<next_ready_global, per_host_next, lastOut, wire,
                            netAttempts>>
        ELSE /\ Reserve(i)
             /\ rl_lock' = NoTask
             /\ lockSeq' = lockSeq + 1
             /\ lastOut' = lockSeq + 1
             /\ IssueRequest(i)
             /\ wakeAt' = [wakeAt EXCEPT ![i] = 0]
             /\ UNCHANGED ticket

\* fetch: the top of one loop iteration, up to the next suspension point
BeginAttempt(i) ==
    IF rate_limiter = "None"
    THEN /\ IssueRequest(i)
         /\ wakeAt' = [wakeAt EXCEPT ![i] = 0]
         /\ UNCHANGED <<limiter, waitCalls>>
    ELSE /\ waitCalls' = [waitCalls EXCEPT ![i] = @ + 1]
         /\ IF WaitIsNoOp(LimiterDelay(delay))
            THEN /\ IssueRequest(i)
                 /\ wakeAt' = [wakeAt EXCEPT ![i] = 0]
                 /\ UNCHANGED limiter
            ELSE IF LockFree(rl_lock)
            THEN LimiterCritical(i)
            ELSE /\ pc' = [pc EXCEPT ![i] = "limiter_lock"]
                 /\ wakeAt' = [wakeAt EXCEPT ![i] = 0]
                 /\ UNCHANGED <<limiter, wire, netAttempts>>

\* RobotsCache.can_fetch: session.get(robots_url) is issued at the current
\* time, without a call of RateLimiter.wait.  The request times are kept per
\* rate-limit scope, in the runs that configure a delay.
SendRobotsRequest(host) ==
    LET scope == IF per_host THEN host ELSE GLOBAL
    IN  IF delay > 0
        THEN lastRobots' = Put(lastRobots, scope, now)
        ELSE UNCHANGED lastRobots

\* _scrape_one once can_fetch has answered from rules
RobotsDecide(i, rules) ==
    LET allowed == CanFetch(rules, urls[i])
        target == AfterRobots(allowed)
    IN  /\ ev' = [ev EXCEPT ![i].robots =
                        IF allowed THEN "allowed" ELSE "disallowed"]
        /\ pc' = [pc EXCEPT ![i] = target]
        /\ IF target = "done"
           THEN Finish(i, Catch(urls[i], Return(DisallowResult(urls[i]))))
           ELSE UNCHANGED <<outcome, completed>>

\* --------------------------------------------------------------- actions
\* RobotsCache.can_fetch: take the lock; answer from the cache, or send the
\* robots.txt request and wait for it with the lock held
RobotsEnter(i) ==
    /\ pc[i] = "robots"
    /\ RobotsMayEnter(i)
    /\ LET host == Host(urls[i])
       IN  IF host \in DOMAIN cache
           THEN /\ RobotsDecide(i, cache[host])
                /\ UNCHANGED robots
           ELSE /\ pc' = [pc EXCEPT ![i] = "robots_fetch"]
                /\ rb_lock' = i
                /\ robotsFetches' = [robotsFetches EXCEPT ![host] = @ + 1]
                /\ SendRobotsRequest(host)
                /\ UNCHANGED <<cache, robotsFailed, ev, outcome, completed>>
    /\ UNCHANGED <<config, now, sem_value, limiter, attempt, backoff, wakeAt,
                   sleepDur, batch, wire, gateAcquires, waitCalls, netAttempts>>

\* RobotsCache.can_fetch: the robots.txt request ended in resp; parse,
\* cache, release the lock and answer
RobotsFetchDone(i, resp) ==
    /\ pc[i] = "robots_fetch"
    /\ LET host == Host(urls[i])
           rules == RobotsText(resp)
       IN  /\ cache' = Put(cache, host, rules)
           /\ robotsFailed' =
                  IF resp.kind = "error" \/ resp.status # 200
                  THEN robotsFailed \cup {host} ELSE robotsFailed
           /\ RobotsDecide(i, rules)
    /\ rb_lock' = NoTask
    /\ UNCHANGED <<config, now, sem_value, limiter, attempt, backoff, wakeAt,
                   sleepDur, batch, wire, robotsFetches, lastRobots,
                   gateAcquires, waitCalls, netAttempts>>

\* fetch: "async with semaphore", then the first loop iteration
GateAcquire(i) ==
    /\ pc[i] = "gate"
    /\ SemCanAcquire(sem_value)
    /\ sem_value' = sem_value - 1
    /\ gateAcquires' = [gateAcquires EXCEPT ![i] = @ + 1]
    /\ attempt' = [attempt EXCEPT ![i] = 1]
    /\ backoff' = [backoff EXCEPT ![i] = 1]
    /\ BeginAttempt(i)
    /\ UNCHANGED <<config, now, robots, sleepDur, outcome, completed, batch, ev>>

\* RateLimiter.wait: a task waiting for the limiter's lock gets it
LimiterLockGranted(i) ==
    /\ pc[i] = "limiter_lock"
    /\ LockFree(rl_lock)
    /\ LimiterCritical(i)
    /\ UNCHANGED <<config, now, sem_value, robots, attempt, backoff, sleepDur,
                   outcome, completed, batch, gateAcquires, waitCalls, ev>>

\* RateLimiter.wait: the sleep ends; re-read the time, reserve, release
LimiterWake(i) ==
    /\ pc[i] = "limiter_sleep"
    /\ now >= wakeAt[i]
    /\ Reserve(i)
    /\ rl_lock' = NoTask
    /\ lastOut' = ticket[i]
    /\ ticket' = [ticket EXCEPT ![i] = 0]
    /\ IssueRequest(i)
    /\ wakeAt' = [wakeAt EXCEPT ![i] = 0]
    /\ UNCHANGED lockSeq
    /\ UNCHANGED <<config, now, sem_value, robots, attempt, backoff, sleepDur,
                   outcome, completed, batch, gateAcquires, waitCalls, ev>>

\* fetch: the page request of the current attempt ended in res; ext is
\* what parse_html does with the text when there is one
RequestDone(i, res, ext) ==
    /\ pc[i] = "request"
    /\ res # "ok" => ext = "ok"
    /\ IF AttemptSucceeded(res, ext)
       THEN /\ sem_value' = SemRelease(sem_value)
            /\ pc' = [pc EXCEPT ![i] = "done"]
            /\ ev' = [ev EXCEPT ![i].fetch = "ok", ![i].extract = ext]
            /\ Finish(i, Catch(urls[i],
                          AfterFetch(urls[i], Body(urls[i], attempt[i]), ext)))
            /\ UNCHANGED <<wakeAt, sleepDur>>
       ELSE IF IsLastAttempt(attempt[i], retries)
       THEN /\ sem_value' = SemRelease(sem_value)
            /\ pc' = [pc EXCEPT ![i] = "done"]
            /\ ev' = [ev EXCEPT ![i].fetch = "exhausted"]
            /\ Finish(i, Catch(urls[i], Raise(res)))
            /\ UNCHANGED <<wakeAt, sleepDur>>
       ELSE /\ pc' = [pc EXCEPT ![i] = "backoff"]
            /\ wakeAt' = [wakeAt EXCEPT ![i] = now + backoff[i]]
            /\ sleepDur' = [sleepDur EXCEPT ![i] = backoff[i]]
            /\ sem_value' = SlotAfterFailedAttempt(sem_value)
            /\ ev' = [ev EXCEPT ![i].fetch = IF res = "ok" THEN "ok" ELSE @]
            /\ UNCHANGED <<outcome, completed>>
    /\ UNCHANGED <<config, now, limiter, robots, attempt, backoff, batch,
                   wire, gateAcquires, waitCalls, netAttempts>>

\* fetch: the backoff sleep ends; double the backoff, next loop iteration
\* (or, were the loop to run out, return None, on which parse_html raises)
BackoffWake(i) ==
    /\ pc[i] = "backoff"
    /\ now >= wakeAt[i]
    /\ backoff' = [backoff EXCEPT ![i] = NextBackoff(@)]
    /\ sleepDur' = [sleepDur EXCEPT ![i] = 0]
    /\ IF LoopContinues(attempt[i], retries)
       THEN /\ attempt' = [attempt EXCEPT ![i] = @ + 1]
            /\ BeginAttempt(i)
            /\ UNCHANGED <<sem_value, ev, outcome, completed>>
       ELSE /\ sem_value' = SemRelease(sem_value)
            /\ pc' = [pc EXCEPT ![i] = "done"]
            /\ ev' = [ev EXCEPT ![i].fetch = "loop_end"]
            /\ Finish(i, Catch(urls[i], Raise("TypeError")))
            /\ wakeAt' = [wakeAt EXCEPT ![i] = 0]
            /\ UNCHANGED <<attempt, limiter, wire, netAttempts, waitCalls>>
    /\ UNCHANGED <<config, now, robots, batch, gateAcquires>>

\* the clock advances by one unit
Advance ==
    /\ now' = now + 1
    /\ lastRobots' = [s \in {x \in DOMAIN lastRobots :
                                (now + 1) - lastRobots[x] < delay}
                         |-> lastRobots[s]]
    /\ UNCHANGED <<config, sem_value, limiter, rb_lock, cache, robotsFetches,
                   robotsFailed, pc, attempt, backoff, wakeAt, sleepDur,
                   outcome, completed, batch, wire, gateAcquires, waitCalls,
                   netAttempts, ev>>

\* time passes while the batch runs, up to the horizon
Tick ==
    /\ now < MaxTime
    /\ \E i \in Tasks : pc[i] # "done"
    /\ Advance

\* scrape_many: "return await asyncio.gather(*tasks)": the list of results
\* once every task has returned, or the first exception a task raised
Gather ==
    /\ batch.kind = "running"
    /\ \/ /\ \E i \in Tasks : outcome[i].kind = "raise"
          /\ batch' = [kind |-> "raised"]
       \/ /\ \A i \in Tasks : outcome[i].kind = "return"
          /\ batch' = [kind |-> "returned",
                       value |-> GatherResults(outcome, completed)]
    /\ UNCHANGED <<config, now, sem_value, limiter, robots, pc, attempt,
                   backoff, wakeAt, sleepDur, outcome, completed, wire,
                   gateAcquires, waitCalls, netAttempts, ev>>

Next ==
    \/ \E i \in Tasks : RobotsEnter(i)
    \/ \E i \in Tasks : \E resp \in RobotsResponses : RobotsFetchDone(i, resp)
    \/ \E i \in Tasks : GateAcquire(i)
    \/ \E i \in Tasks : LimiterLockGranted(i)
    \/ \E i \in Tasks : LimiterWake(i)
    \/ \E i \in Tasks : \E res \in AttemptOutcomes : \E ext \in ExtractOutcomes :
           RequestDone(i, res, ext)
    \/ \E i \in Tasks : BackoffWake(i)
    \/ Tick
    \/ Gather

Spec == Init /\ [][Next]_vars

\* ------------------------------------------------------------- progress
\* the tasks inside asyncio.sleep
Sleeping == {i \in Tasks : pc[i] \in {"limiter_sleep", "backoff"}}
\* time passes for as long as some sleep has not reached its deadline, so
\* that every sleep ends; no horizon is needed, the deadlines bound the clock
TickLive ==
    /\ \E i \in Sleeping : now < wakeAt[i]
    /\ Advance

NextLive ==
    \/ \E i \in Tasks : RobotsEnter(i)
    \/ \E i \in Tasks : \E resp \in RobotsResponses : RobotsFetchDone(i, resp)
    \/ \E i \in Tasks : GateAcquire(i)
    \/ \E i \in Tasks : LimiterLockGranted(i)
    \/ \E i \in Tasks : LimiterWake(i)
    \/ \E i \in Tasks : \E res \in AttemptOutcomes : \E ext \in ExtractOutcomes :
           RequestDone(i, res, ext)
    \/ \E i \in Tasks : BackoffWake(i)
    \/ TickLive
    \/ Gather

\* the event loop runs every task that is ready, every lock and semaphore
\* wakes its waiters, every sleep ends once its deadline has passed and
\* every request (page or robots.txt) ends, in a response or in an error
Fairness ==
    /\ \A i \in 1..NumUrls :
           /\ WF_vars(RobotsEnter(i))
           /\ WF_vars(\E resp \in RobotsResponses : RobotsFetchDone(i, resp))
           /\ WF_vars(GateAcquire(i))
           /\ WF_vars(LimiterLockGranted(i))
           /\ WF_vars(LimiterWake(i))
           /\ WF_vars(\E res \in AttemptOutcomes : \E ext \in ExtractOutcomes :
                          RequestDone(i, res, ext))
           /\ WF_vars(BackoffWake(i))
    /\ WF_vars(TickLive)
    /\ WF_vars(Gather)

SpecLive == Init /\ [][NextLive]_vars /\ Fairness

\* ------------------------------------------------- RobotsCache on its own
\* The can_fetch calls of one more task than in Spec, so that a call for a
\* host already cached can meet the robots.txt request of another host.  A
\* task stops once can_fetch has answered it.
InitRobots ==
    /\ urls \in [1..(NumUrls + 1) -> URLS]
    /\ concurrency \in 1..MaxConcurrency
    /\ delay \in Delays
    /\ per_host \in (IF delay > 0 THEN BOOLEAN ELSE {FALSE})
    /\ respect_robots = TRUE
    /\ retries = MaxRetries
    /\ rate_limiter = IF HasLimiter(delay) THEN "RateLimiter" ELSE "None"
    /\ Start

NextRobots ==
    \/ \E i \in Tasks : RobotsEnter(i)
    \/ \E i \in Tasks : \E resp \in RobotsResponses : RobotsFetchDone(i, resp)
    \/ Tick

SpecRobots == InitRobots /\ [][NextRobots]_vars

\* ------------------------------------------------- async_imdb.scrape_imdb
\* scrape_imdb builds its RateLimiter whatever the delay, so that wait is
\* called with a delay <= 0 too; its fetch makes one attempt.  Task 1 is
\* the fetch of the chart page, the others are the detail-page fetches that
\* are created from its links and gathered.
ImdbDelays == {-1, 0, 2}
POPULAR_URL == <<"h1", "/a">>
Chart == 1
Details == Tasks \ {Chart}

InitImdb ==
    /\ urls \in {u \in [1..(NumUrls + 1) -> URLS] : u[Chart] = POPULAR_URL}
    /\ concurrency \in 1..MaxConcurrency
    /\ delay \in ImdbDelays
    /\ per_host = (delay > 0)
    /\ respect_robots = FALSE
    /\ retries = 1
    /\ rate_limiter = "RateLimiter"
    /\ Start

\* async_imdb.fetch: "async with semaphore", wait, then session.get
ImdbFetch(i) ==
    /\ pc[i] = "gate"
    /\ i \in Details => outcome[Chart].kind = "return"
    /\ SemCanAcquire(sem_value)
    /\ sem_value' = sem_value - 1
    /\ gateAcquires' = [gateAcquires EXCEPT ![i] = @ + 1]
    /\ BeginAttempt(i)
    /\ UNCHANGED <<config, now, robots, attempt, backoff, sleepDur, outcome,
                   completed, batch, ev>>

\* async_imdb.fetch: the request ended in res: the text is returned or the
\* exception leaves fetch; ext tells whether the page holds every detail
ImdbRequestDone(i, res, ext) ==
    /\ pc[i] = "request"
    /\ res # "ok" => ext = "ok"
    /\ sem_value' = SemRelease(sem_value)
    /\ pc' = [pc EXCEPT ![i] = "done"]
    /\ ev' = [ev EXCEPT ![i].fetch = IF res = "ok" THEN "ok" ELSE "raised",
                        ![i].extract = IF res = "ok" THEN ext ELSE @]
    /\ Finish(i, IF res = "ok" THEN Return(Body(urls[i], 1)) ELSE Raise(res))
    \* an exception of the chart fetch leaves scrape_imdb
    /\ batch' = IF i = Chart /\ res # "ok" THEN [kind |-> "raised"] ELSE batch
    /\ UNCHANGED <<config, now, limiter, robots, attempt, backoff, wakeAt,
                   sleepDur, wire, gateAcquires, waitCalls, netAttempts>>

\* scrape_imdb: gather(return_exceptions=True), then the pages that are not
\* exceptions and hold every detail, in the order of the links
ImdbGather ==
    /\ batch.kind = "running"
    /\ \A i \in Tasks : pc[i] = "done"
    /\ LET pages == [k \in 1..(Len(urls) - 1) |->
                        [page |-> outcome[k + 1], n |-> k + 1]]
           kept(p) == p.page.kind = "return" /\ ev[p.n].extract = "ok"
           rows == SelectSeq(pages, kept)
       IN  batch' = [kind |-> "returned",
                     value |-> [k \in 1..Len(rows) |-> rows[k].page.value]]
    /\ UNCHANGED <<config, now, sem_value, limiter, robots, pc, attempt,
                   backoff, wakeAt, sleepDur, outcome, completed, wire,
                   gateAcquires, waitCalls, netAttempts, ev>>

NextImdb ==
    \/ \E i \in Tasks : ImdbFetch(i)
    \/ \E i \in Tasks : LimiterLockGranted(i)
    \/ \E i \in Tasks : LimiterWake(i)
    \/ \E i \in Tasks : \E res \in AttemptOutcomes : \E ext \in ExtractOutcomes :
           ImdbRequestDone(i, res, ext)
    \/ Tick
    \/ ImdbGather

SpecImdb == InitImdb /\ [][NextImdb]_vars

\* ================================================================ claims
\* the positions of a task inside "async with semaphore"
GatedPcs == {"limiter_lock", "limiter_sleep", "request", "backoff"}
InGate == {i \in Tasks : pc[i] \in GatedPcs}
\* the fetch of task i has returned a text or raised after its last attempt
Terminal(i) == ev[i].fetch \in {"ok", "exhausted"}

\* C1: with delay d > 0, consecutive page requests of one rate-limit scope
\* (the host in per-host mode, else the global scope) are at least d apart,
\* retries included; hence any two requests of the scope are.
C1_Spacing ==
    delay > 0 => \A s \in DOMAIN gap : gap[s] >= delay
\* two tasks of one scope run in the gate at once and two requests of the
\* scope went out exactly delay apart
C1_Witness ==
    /\ delay > 0 /\ concurrency = 2
    /\ ScopeKey(urls[1]) = ScopeKey(urls[2])
    /\ netAttempts[1] >= 1 /\ netAttempts[2] >= 1
    /\ InGate = {1, 2}
    /\ ScopeKey(urls[1]) \in DOMAIN gap
    /\ gap[ScopeKey(urls[1])] = delay

\* C2: at most `concurrency` tasks are between acquiring and releasing the
\* semaphore, and the semaphore's counter accounts for each of them.
C2_ConcurrencyBound ==
    /\ Cardinality(InGate) <= concurrency
    /\ sem_value = concurrency - Cardinality(InGate)
\* the gate is full, one task waits for a slot while the holder backs off
\* after a failed attempt
C2_Witness ==
    /\ Cardinality(InGate) = concurrency
    /\ \E i, j \in Tasks : pc[i] = "gate" /\ pc[j] = "backoff"

\* C3: scrape_many returns one entry per input URL, duplicates included,
\* and no task's exception leaves _scrape_one or scrape_many.
C3_OneResultPerUrl ==
    /\ batch.kind # "raised"
    /\ \A i \in Tasks : outcome[i].kind # "raise"
    /\ batch.kind = "returned" =>
           /\ Len(batch.value) = Len(urls)
           /\ \A i \in Tasks : batch.value[i] = outcome[i].value
\* a returned batch of a duplicated URL where one task failed in extraction
\* and the other ran out of retries
C3_Witness ==
    /\ batch.kind = "returned"
    /\ urls[1] = urls[2]
    /\ \E i, j \in Tasks :
           ev[i].extract = "extract_error" /\ ev[j].fetch = "exhausted"

\* C4: the i-th entry of the returned list is the result for urls[i].
C4_OrderPreserved ==
    batch.kind = "returned" =>
        \A i \in 1..Len(urls) : batch.value[i].url = urls[i]
\* the last task completed first, on a URL other than the first task's
C4_Witness ==
    /\ batch.kind = "returned"
    /\ completed[1] = NumUrls
    /\ urls[1] # urls[NumUrls]

\* C5: at most one robots.txt request per host is ever sent, and a cached
\* rule set is never replaced.
C5_RobotsSingleResolution ==
    /\ [](\A h \in Hosts : robotsFetches[h] <= 1)
    /\ [][\A h \in DOMAIN cache :
             h \in DOMAIN cache' /\ cache'[h] = cache[h]]_vars
\* two tasks of one host were both answered after a single, failed
\* robots.txt request
C5_Witness ==
    /\ Host(urls[1]) = Host(urls[2])
    /\ robotsFetches[Host(urls[1])] = 1
    /\ Host(urls[1]) \in robotsFailed
    /\ \A i \in Tasks : ev[i].robots # "none"

\* C6: when the robots.txt request of a host raised or returned a status
\* other than 200, can_fetch answers true for every URL of the host, raises
\* nothing, and the task goes on to the gated fetch.
C6_RobotsFailureAllows ==
    \A i \in Tasks :
        (Host(urls[i]) \in robotsFailed /\ ev[i].robots # "none") =>
            /\ ev[i].robots = "allowed"
            /\ outcome[i].kind # "raise"
            /\ pc[i] = "gate" \/ gateAcquires[i] = 1
\* a URL whose path the body of the failed response would disallow, allowed
\* and through the gate
C6_Witness ==
    \E i \in Tasks :
        /\ Host(urls[i]) \in robotsFailed
        /\ PathOf(urls[i]) = "/a"
        /\ ev[i].robots = "allowed"
        /\ netAttempts[i] >= 1

\* C7: a fetch whose every attempt fails makes exactly `retries` page
\* requests, never more, then raises, and the URL's result is not-ok with
\* the error's description.
C7_RetryExhaustion ==
    \A i \in Tasks :
        /\ netAttempts[i] <= retries
        /\ (pc[i] = "done" /\ ev[i].robots # "disallowed" /\ ev[i].fetch # "ok") =>
               /\ ev[i].fetch = "exhausted"
               /\ netAttempts[i] = retries
               /\ outcome[i] = Return(ErrResult(urls[i], "http_error"))
\* a task that failed MaxRetries attempts and ended
C7_Witness ==
    \E i \in Tasks :
        ev[i].fetch = "exhausted" /\ retries = MaxRetries /\ netAttempts[i] = MaxRetries

\* C8: after failed attempt a < retries the task sleeps 2^(a-1) seconds, no
\* backoff follows the last allowed attempt, and a fetch that succeeds on a
\* later attempt returns that attempt's body without an error.
C8_BackoffSchedule ==
    \A i \in Tasks :
        /\ pc[i] = "backoff" =>
               /\ attempt[i] < retries
               /\ sleepDur[i] = 2 ^ (attempt[i] - 1)
               /\ wakeAt[i] - sleepDur[i] <= now
        /\ (ev[i].fetch = "ok" /\ ev[i].extract = "ok") =>
               outcome[i] = Return(OkResult(urls[i],
                                [source |-> Body(urls[i], netAttempts[i])]))
\* a task that failed attempts 1 and 2 and succeeded on attempt 3
C8_Witness ==
    \E i \in Tasks :
        /\ netAttempts[i] = 3 /\ ev[i].fetch = "ok" /\ ev[i].extract = "ok"
        /\ outcome[i].value.ok

\* C9: a URL that can_fetch disallows ends at once with the disallow
\* result, without a gate slot, a RateLimiter.wait, a request or a retry.
C9_DisallowShortCircuit ==
    \A i \in Tasks :
        ev[i].robots = "disallowed" =>
            /\ pc[i] = "done"
            /\ outcome[i] = Return(DisallowResult(urls[i]))
            /\ gateAcquires[i] = 0 /\ waitCalls[i] = 0
            /\ netAttempts[i] = 0 /\ attempt[i] = 0
\* a disallowed URL in a returned batch of a run with a rate limiter, the
\* other URL having been fetched
C9_Witness ==
    /\ batch.kind = "returned" /\ delay > 0
    /\ \E i, j \in Tasks : ev[i].robots = "disallowed" /\ netAttempts[j] >= 1

\* C10: the ok flag of the i-th result is true exactly when URL i was not
\* disallowed, one of its at most `retries` attempts succeeded and its
\* extraction did not fail, whatever the other URLs did.
C10_PartialFailureIsolation ==
    batch.kind = "returned" =>
        \A i \in Tasks :
            batch.value[i].ok <=>
                /\ ev[i].robots # "disallowed"
                /\ ev[i].fetch = "ok" /\ netAttempts[i] <= retries
                /\ ev[i].extract = "ok"
\* a returned batch with one ok result next to a URL that failed every
\* attempt
C10_Witness ==
    /\ batch.kind = "returned"
    /\ \E i, j \in Tasks :
           /\ batch.value[i].ok /\ ~batch.value[j].ok
           /\ ev[j].fetch = "exhausted" /\ netAttempts[j] = retries

\* C11: with a delay <= 0, RateLimiter.wait returns at once: the limiter's
\* lock is never taken, no caller sleeps or queues in wait, the global and
\* the per-host next-allowed times stay as built, and the request follows
\* the call of wait in the same stretch of code.
C11_DisabledLimiterNoOp ==
    delay <= 0 =>
        /\ rl_lock = NoTask /\ lockSeq = 0
        /\ next_ready_global = 0 /\ per_host_next = EmptyDict
        /\ \A i \in Tasks :
               /\ pc[i] \notin {"limiter_lock", "limiter_sleep"}
               /\ wakeAt[i] = 0
               /\ netAttempts[i] = waitCalls[i]
\* a limiter built with a negative delay: two tasks called wait at different
\* times and have their requests in flight together
C11_Witness ==
    /\ delay < 0 /\ rate_limiter = "RateLimiter" /\ now >= 1
    /\ waitCalls[Chart] = 1 /\ pc[Chart] = "done"
    /\ \A i \in Details : waitCalls[i] = 1 /\ pc[i] = "request"

\* C12: under fair scheduling, with every request and every sleep ending,
\* every task reaches its terminal result and scrape_many returns; until
\* then some step is always possible (the gate, the limiter's lock and the
\* robots lock do not deadlock).
C12_BatchTerminates ==
    /\ <>(batch.kind = "returned" /\ \A i \in Tasks : pc[i] = "done")
    /\ [](batch.kind = "running" => ENABLED <<NextLive>>_vars)
\* one gate slot, a limiter, robots on: both URLs failed every one of the
\* three attempts and scrape_many returned
C12_Witness ==
    /\ batch.kind = "returned"
    /\ concurrency = 1 /\ delay > 0 /\ respect_robots /\ retries = MaxRetries
    /\ \A i \in Tasks : ev[i].fetch = "exhausted"

\* C13 as stated: a task that sleeps in RateLimiter.wait does not hold the
\* limiter's lock during the sleep.
C13_SleepsWithoutLock ==
    \A i \in Tasks : pc[i] = "limiter_sleep" => rl_lock # i
\* C13, amended: a task that sleeps in RateLimiter.wait holds the limiter's
\* lock through the sleep, and for as long as it sleeps no other caller, of
\* the same or of another scope, enters the critical section or writes a
\* next-allowed time.
C13_LockHeldAcrossSleep ==
    /\ [](\A i \in Tasks : pc[i] = "limiter_sleep" => rl_lock = i)
    /\ [][\A i \in Tasks :
             (pc[i] = "limiter_sleep" /\ pc'[i] = "limiter_sleep") =>
                 /\ lockSeq' = lockSeq
                 /\ next_ready_global' = next_ready_global
                 /\ per_host_next' = per_host_next]_vars
\* per-host mode: a task sleeps in wait with the lock while a task of
\* another host, whose own slot is free, waits for the lock
C13_Witness ==
    /\ per_host
    /\ \E i, j \in Tasks :
           /\ pc[i] = "limiter_sleep" /\ rl_lock = i /\ now < wakeAt[i]
           /\ pc[j] = "limiter_lock"
           /\ Host(urls[j]) # Host(urls[i])
           /\ NextReady(urls[j]) <= now

\* C14 as stated: with robots checking on and delay d > 0, no two requests
\* of any kind to one scope are less than d apart: page requests among
\* themselves, and the robots.txt request against the page requests.
C14_AllRequestsSpaced ==
    (delay > 0 /\ respect_robots) =>
        /\ \A s \in DOMAIN gap : gap[s] >= delay
        /\ \A s \in (DOMAIN lastRobots) \cap (DOMAIN lastWire) :
               \/ lastWire[s] - lastRobots[s] >= delay
               \/ lastRobots[s] - lastWire[s] >= delay
\* per-host mode: the robots.txt request of a host and the first page
\* request to the host left at the same instant
C14_Witness ==
    /\ delay > 0 /\ respect_robots /\ per_host
    /\ \E i \in Tasks :
           /\ netAttempts[i] = 1
           /\ Host(urls[i]) \in DOMAIN lastRobots
           /\ lastWire[Host(urls[i])] = lastRobots[Host(urls[i])]

\* C15: a task takes the semaphore once and keeps that slot through every
\* wait on the limiter, every request and every backoff sleep, until its
\* fetch ends; the slot is never given back between attempts, so the tasks
\* waiting on the limiter, requesting or backing off are at most
\* `concurrency`.
C15_GateHeldThroughRetries ==
    /\ \A i \in Tasks :
           /\ gateAcquires[i] <= 1
           /\ pc[i] \in GatedPcs => gateAcquires[i] = 1
           /\ (waitCalls[i] > 0 \/ netAttempts[i] > 0) => gateAcquires[i] = 1
    /\ sem_value + Cardinality(InGate) = concurrency
    /\ Cardinality(InGate) <= concurrency
\* one gate slot: a task is in its second backoff sleep, after two waits on
\* the limiter and two requests under one acquisition, while the other task
\* still waits for the slot
C15_Witness ==
    /\ concurrency = 1 /\ delay > 0 /\ sem_value = 0
    /\ \E i, j \in Tasks :
           /\ pc[i] = "backoff" /\ attempt[i] = 2
           /\ waitCalls[i] = 2 /\ netAttempts[i] = 2 /\ gateAcquires[i] = 1
           /\ pc[j] = "gate" /\ gateAcquires[j] = 0

C17_ScheduleMonotone ==
    [][/\ next_ready_global' >= next_ready_global
       /\ \A h \in DOMAIN per_host_next : h \in DOMAIN per_host_next'
       /\ \A h \in DOMAIN per_host_next' :
              per_host_next'[h] >= Get(per_host_next, h, 0)
       /\ <<next_ready_global, per_host_next>>' # <<next_ready_global, per_host_next>>
              => \E i \in Tasks :
                     /\ pc[i] # "request" /\ pc'[i] = "request"
                     /\ \/ rl_lock = NoTask /\ lockSeq' = lockSeq + 1
                        \/ rl_lock = i /\ pc[i] = "limiter_sleep"
                     /\ rl_lock' = NoTask]_vars
\* per-host mode: the entry of a host was written twice, up to 2 * delay,
\* and a task now sleeps with the lock while another waits for it
C17_Witness ==
    /\ per_host /\ delay > 0
    /\ \E h \in DOMAIN per_host_next : per_host_next[h] >= 2 * delay
    /\ \E i, j \in Tasks : pc[i] = "limiter_sleep" /\ pc[j] = "limiter_lock"

\* C18: with the acquisitions of the limiter's lock numbered in order, the
\* waits return in that order, each with its request issued in the same
\* step: at most the latest acquirer has not returned yet, and every return
\* is that of the acquisition following the last one that returned.
C18_NoOvertaking ==
    /\ [](/\ lastOut <= lockSeq /\ lockSeq <= lastOut + 1
          /\ \A i \in Tasks : pc[i] = "limiter_sleep" => ticket[i] = lockSeq)
    /\ [][lastOut' # lastOut =>
             /\ lastOut' = lastOut + 1
             /\ \E i \in Tasks :
                    /\ pc[i] # "request" /\ pc'[i] = "request"
                    /\ netAttempts'[i] = netAttempts[i] + 1]_vars
\* two tasks of one scope: after three acquisitions, both having had a
\* request out, one sleeps with the lock as the latest acquirer while the
\* other waits for the lock
C18_Witness ==
    /\ delay > 0 /\ lockSeq >= 3 /\ lastOut = lockSeq - 1
    /\ \E i, j \in Tasks :
           /\ ScopeKey(urls[i]) = ScopeKey(urls[j])
           /\ netAttempts[i] >= 1 /\ netAttempts[j] >= 1
           /\ pc[i] = "limiter_sleep" /\ ticket[i] = lockSeq
           /\ pc[j] = "limiter_lock"

\* C19: in per-host mode a wait that completes writes the entry of its URL's
\* host and nothing else (the other hosts' entries and the global time stay),
\* in global mode it writes the global time and the per-host table stays
\* empty; no other step writes; the per-host entries are exactly the hosts
\* for which a wait has completed.
C19_ScopeEntries ==
    /\ [](IF per_host
          THEN /\ next_ready_global = 0
               /\ DOMAIN per_host_next =
                      {Host(urls[i]) : i \in {j \in Tasks : netAttempts[j] >= 1}}
          ELSE per_host_next = EmptyDict)
    /\ [][/\ \A i \in Tasks :
              (rate_limiter # "None" /\ netAttempts'[i] = netAttempts[i] + 1) =>
                  IF per_host
                  THEN /\ per_host_next'[Host(urls[i])] = now + delay
                       /\ \A h \in DOMAIN per_host_next :
                              h # Host(urls[i]) =>
                                  per_host_next'[h] = per_host_next[h]
                       /\ next_ready_global' = next_ready_global
                  ELSE /\ next_ready_global' = now + delay
                       /\ per_host_next' = per_host_next
          /\ netAttempts' = netAttempts =>
                 /\ next_ready_global' = next_ready_global
                 /\ per_host_next' = per_host_next]_vars
\* per-host mode: both hosts have an entry, written at different times, and
\* the global time is still 0
C19_Witness ==
    /\ per_host /\ next_ready_global = 0
    /\ DOMAIN per_host_next = Hosts
    /\ per_host_next["h1"] # per_host_next["h2"]

\* C20: one lock covers lookup, request, parse and cache write of the whole
\* cache: at most one robots.txt request is in flight, its sender holds the
\* lock, and while it is in flight no other can_fetch call is answered, be
\* its host cached or not.
C20_RobotsSerialized ==
    /\ [](/\ Cardinality({i \in Tasks : pc[i] = "robots_fetch"}) <= 1
          /\ \A i \in Tasks : pc[i] = "robots_fetch" <=> rb_lock = i)
    /\ [][rb_lock # NoTask =>
             \A i \in Tasks :
                 pc[i] = "robots" => pc'[i] = "robots" /\ ev'[i] = ev[i]]_vars
\* the robots.txt request of one host is in flight while a call for another
\* host, whose rules are cached already, waits for the lock
C20_Witness ==
    \E i, j \in Tasks :
        /\ pc[i] = "robots_fetch" /\ rb_lock = i
        /\ pc[j] = "robots"
        /\ Host(urls[j]) \in DOMAIN cache
        /\ Host(urls[j]) # Host(urls[i])

====
